---- MODULE Spec2Model ----
(***************************************************************************)
(* Model of the recipe chatbot backend: the /chat handler                  *)
(* (backend/main.py), the agent wrapper (backend/utils.py) and the         *)
(* conversation store (backend/db.py).                                     *)
(*                                                                         *)
(* Strings that the code inspects character by character (message          *)
(* contents, which the agent wrapper strips) are sequences of one-letter   *)
(* strings; identifiers, which the code only compares, are strings.        *)
(***************************************************************************)
EXTENDS Naturals, Sequences, FiniteSets

(***************************************************************************)
(* Bounds of the explored inputs.                                          *)
(***************************************************************************)
\* longest request history explored by the single-request specification
MaxLen == 2
\* longest history explored by the concurrent and the store specifications
MaxChatLen == 1

Handlers == {"h1", "h2"}

\* Python's None, for an absent payload user_id or cookie
None == "<None>"
\* payload.user_id and the user_id cookie are each None or a string
Ids == {None, "", "A", "B"}
\* the values uuid.uuid4() may return
UuidPool == {"G1", "G2"}
Users == {"A", "B"} \cup UuidPool

Roles == {"system", "user", "assistant"}
SYSTEM_PROMPT == <<"P">>
UserText == <<"h", "i">>
Contents == {SYSTEM_PROMPT, UserText}
Messages == [role : Roles, content : Contents]
ChatMessages == [role : Roles, content : {UserText}]

\* every sequence over M of length at most n
SeqsUpTo(M, n) == UNION {[1..k -> M] : k \in 0..n}
Histories == SeqsUpTo(Messages, MaxLen)
ChatHistories == SeqsUpTo(ChatMessages, MaxChatLen)

\* contents the completion service may return, before stripping
RawReplies == {<<" ", "o", "k", " ">>, <<"o", "k">>, <<" ", " ">>}
ChatRawReplies == {<<" ", "o", "k", " ">>}

(***************************************************************************)
(* backend/utils.py                                                        *)
(***************************************************************************)
IsSpace(c) == c = " "

RECURSIVE lstrip(_)
lstrip(s) == IF s # <<>> /\ IsSpace(Head(s)) THEN lstrip(Tail(s)) ELSE s

RECURSIVE rstrip(_)
rstrip(s) ==
    IF s # <<>> /\ IsSpace(s[Len(s)]) THEN rstrip(SubSeq(s, 1, Len(s) - 1)) ELSE s

\* str.strip()
strip(s) == rstrip(lstrip(s))

SystemPromptMessage == [role |-> "system", content |-> SYSTEM_PROMPT]

\* a plausible slip: the test looks at the last message instead of the first
current_messages_last(messages) ==
    IF messages = <<>> \/ messages[Len(messages)].role # "system"
    THEN <<SystemPromptMessage>> \o messages
    ELSE messages

\* a plausible slip: the prompt is appended at the end instead of prepended
current_messages_tail(messages) ==
    IF messages = <<>> \/ messages[1].role # "system"
    THEN messages \o <<SystemPromptMessage>>
    ELSE messages

\* the list handed to litellm.completion
current_messages(messages) ==
    IF messages = <<>> \/ messages[1].role # "system"
    THEN <<SystemPromptMessage>> \o messages
    ELSE messages

\* a plausible slip: the reply is appended to the input instead of current_messages
updated_messages_input(messages, raw) ==
    messages \o <<[role |-> "assistant", content |-> strip(raw)]>>

\* the list get_agent_response returns when the completion returned content raw
updated_messages(messages, raw) ==
    current_messages(messages) \o <<[role |-> "assistant", content |-> strip(raw)]>>

(***************************************************************************)
(* backend/db.py: the conversations collection is the sequence of its      *)
(* documents in insertion order.                                           *)
(***************************************************************************)
Matching(coll, uid) == {i \in 1..Len(coll) : coll[i].user_id = uid}

First(S) == CHOOSE i \in S : \A j \in S : i <= j

\* conversations.find_one({"user_id": uid}): <<the first match>>, or <<>> for None
find_one(coll, uid) ==
    IF Matching(coll, uid) = {} THEN <<>> ELSE <<coll[First(Matching(coll, uid))]>>

\* a plausible slip: the write inserts a new document every time
update_one_insert(coll, uid, messages) ==
    Append(coll, [user_id |-> uid, messages |-> messages])

\* conversations.update_one({"user_id": uid}, {"$set": {"messages": messages}}, upsert=True)
update_one(coll, uid, messages) ==
    IF Matching(coll, uid) = {}
    THEN Append(coll, [user_id |-> uid, messages |-> messages])
    ELSE [coll EXCEPT ![First(Matching(coll, uid))].messages = messages]

\* a plausible slip: the write appends to the stored history ($push instead of $set)
save_conversation_push(coll, uid, messages) ==
    IF Matching(coll, uid) = {}
    THEN Append(coll, [user_id |-> uid, messages |-> messages])
    ELSE [coll EXCEPT ![First(Matching(coll, uid))].messages = @ \o messages]

\* the collection after save_conversation(uid, messages)
save_conversation(coll, uid, messages) == update_one(coll, uid, messages)

get_conversation(coll, uid) ==
    IF find_one(coll, uid) # <<>> THEN find_one(coll, uid)[1].messages ELSE <<>>

(***************************************************************************)
(* backend/main.py                                                         *)
(***************************************************************************)
\* Python truthiness of an optional string
Truthy(s) == s # None /\ s # ""

\* a plausible slip: the cookie is preferred over the payload id
resolve_cookie_first(payload_id, cookie_id, fresh) ==
    IF ~Truthy(cookie_id) /\ ~Truthy(payload_id)
    THEN [user_id |-> fresh, set_cookie |-> fresh]
    ELSE IF Truthy(cookie_id)
         THEN [user_id |-> cookie_id, set_cookie |-> None]
         ELSE [user_id |-> payload_id, set_cookie |-> payload_id]

\* lines 98-103: the user id of the request and the cookie value set (None: not set)
resolve(payload_id, cookie_id, fresh) ==
    IF ~Truthy(cookie_id) /\ ~Truthy(payload_id)
    THEN [user_id |-> fresh, set_cookie |-> fresh]
    ELSE IF Truthy(payload_id)
         THEN [user_id |-> payload_id, set_cookie |-> payload_id]
         ELSE [user_id |-> cookie_id, set_cookie |-> None]

\* ChatMessage.model_dump() and ChatMessage(**msg): the two fields, nothing else
model_dump(msg) == [role |-> msg.role, content |-> msg.content]
dump_all(msgs) == [i \in 1..Len(msgs) |-> model_dump(msgs[i])]

\* next((msg for msg in reversed(msgs) if msg["role"] == role), None):
\* <<the last such message>>, or <<>> for None
latest_message(msgs, role) ==
    LET S == {i \in 1..Len(msgs) : msgs[i].role = role}
    IN IF S = {} THEN <<>> ELSE <<msgs[CHOOSE i \in S : \A j \in S : j <= i]>>

\* the effect of log_user_query on the query log
log_user_query(logs, uid, query, reply, length) ==
    logs \cup {[user_id |-> uid, query |-> query, response |-> reply,
                conversation_length |-> length]}

(***************************************************************************)
(* State.                                                                  *)
(***************************************************************************)
VARIABLES
    conversations,     \* db.py: the conversations collection
    query_logs,        \* the query log written by log_user_query
    uuids,             \* the values uuid.uuid4() has returned
    pc,                \* per handler: where chat_endpoint stands
    request,           \* per handler: payload user_id, cookie user_id, messages
    user_id,           \* per handler: the resolved user id
    cookie_set,        \* per handler: the value given to response.set_cookie, or None
    sent,              \* per handler: the messages passed to litellm.completion
    updated,           \* per handler: updated_messages_dicts
    response,          \* per handler: the HTTP response (status 0: none yet)
    history,           \* per handler: the messages of the client's /history response
    failed_at,         \* per handler: the call that raised, or "none"
    completion_calls,  \* per handler: calls of litellm.completion made
    save_calls,        \* per handler: calls of save_conversation made
    last_write,        \* per user id: the handler whose save was applied last
    conversations0,    \* the collection when the server started
    last_put,          \* per user id: <<the messages of the last save>>, or <<>>
    got                \* the last get_conversation call: user id and result

handlerVars == <<pc, request, user_id, cookie_set, sent, updated, response, history,
                 failed_at, completion_calls, save_calls>>
storeVars == <<last_put, got>>
vars == <<conversations, query_logs, uuids, handlerVars, last_write, conversations0,
          storeVars>>

NoRequest == [user_id |-> None, cookie |-> None, messages |-> <<>>]
NoResponse == [status |-> 0, messages |-> <<>>]

\* a record save_conversation wrote before this server started
PriorRecord ==
    [user_id |-> "A",
     messages |-> <<SystemPromptMessage,
                    [role |-> "user", content |-> UserText],
                    [role |-> "assistant", content |-> <<"o", "k">>]>>]

InitHandlers ==
    /\ pc = [h \in Handlers |-> "idle"]
    /\ request = [h \in Handlers |-> NoRequest]
    /\ user_id = [h \in Handlers |-> None]
    /\ cookie_set = [h \in Handlers |-> None]
    /\ sent = [h \in Handlers |-> <<>>]
    /\ updated = [h \in Handlers |-> <<>>]
    /\ response = [h \in Handlers |-> NoResponse]
    /\ history = [h \in Handlers |-> <<>>]
    /\ failed_at = [h \in Handlers |-> "none"]
    /\ completion_calls = [h \in Handlers |-> 0]
    /\ save_calls = [h \in Handlers |-> 0]
    /\ query_logs = {}
    /\ uuids = {}
    /\ last_write = [u \in Users |-> "none"]
    /\ last_put = [u \in Users |-> <<>>]
    /\ got = [user_id |-> None, messages |-> <<>>]

\* the database is empty, or holds a record of an earlier run
Init ==
    /\ InitHandlers
    /\ conversations \in {<<>>, <<PriorRecord>>}
    /\ conversations0 = conversations

InitEmpty ==
    /\ InitHandlers
    /\ conversations = <<>>
    /\ conversations0 = conversations

(***************************************************************************)
(* chat_endpoint, one action per call that can block or raise.             *)
(***************************************************************************)
\* lines 97-109: identity resolution and the request messages
Receive(h, payload_id, cookie_id, messages) ==
    /\ pc[h] = "idle"
    /\ \E fresh \in (IF Truthy(payload_id) \/ Truthy(cookie_id)
                     THEN {None} ELSE UuidPool \ uuids) :
          /\ user_id' = [user_id EXCEPT ![h] = resolve(payload_id, cookie_id, fresh).user_id]
          /\ cookie_set' =
                [cookie_set EXCEPT ![h] = resolve(payload_id, cookie_id, fresh).set_cookie]
          /\ uuids' = IF fresh = None THEN uuids ELSE uuids \cup {fresh}
    /\ request' = [request EXCEPT ![h] = [user_id |-> payload_id, cookie |-> cookie_id,
                                          messages |-> dump_all(messages)]]
    /\ pc' = [pc EXCEPT ![h] = "agent"]
    /\ UNCHANGED <<conversations, query_logs, sent, updated, response, history, failed_at,
                   completion_calls, save_calls, last_write, conversations0, storeVars>>

\* the except clause, lines 134-139: HTTP 500
RaiseHTTP500(h, where) ==
    /\ pc' = [pc EXCEPT ![h] = "error"]
    /\ failed_at' = [failed_at EXCEPT ![h] = where]
    /\ response' = [response EXCEPT ![h] = [status |-> 500, messages |-> <<>>]]

\* a plausible slip: the conversation is saved although the completion raised
AgentRaisesSaved(h) ==
    /\ pc[h] = "agent"
    /\ sent' = [sent EXCEPT ![h] = current_messages(request[h].messages)]
    /\ completion_calls' = [completion_calls EXCEPT ![h] = @ + 1]
    /\ RaiseHTTP500(h, "completion")
    /\ conversations' = save_conversation(conversations, user_id[h], sent'[h])
    /\ UNCHANGED <<query_logs, uuids, request, user_id, cookie_set, updated,
                   history, save_calls, last_write, conversations0, storeVars>>

\* get_agent_response: litellm.completion raises, or its reply has no content to strip
AgentRaises(h) ==
    /\ pc[h] = "agent"
    /\ sent' = [sent EXCEPT ![h] = current_messages(request[h].messages)]
    /\ completion_calls' = [completion_calls EXCEPT ![h] = @ + 1]
    /\ RaiseHTTP500(h, "completion")
    /\ UNCHANGED <<conversations, query_logs, uuids, request, user_id, cookie_set, updated,
                   history, save_calls, last_write, conversations0, storeVars>>

\* get_agent_response returns: the completion replied with content raw
AgentReturns(h, raw) ==
    /\ pc[h] = "agent"
    /\ sent' = [sent EXCEPT ![h] = current_messages(request[h].messages)]
    /\ completion_calls' = [completion_calls EXCEPT ![h] = @ + 1]
    /\ updated' = [updated EXCEPT ![h] = updated_messages(request[h].messages, raw)]
    /\ pc' = [pc EXCEPT ![h] = "save"]
    /\ UNCHANGED <<conversations, query_logs, uuids, request, user_id, cookie_set, response,
                   history, failed_at, save_calls, last_write, conversations0, storeVars>>

\* line 121: the query is logged when the request holds a user message
LogsQuery(h) ==
    /\ latest_message(request[h].messages, "user") # <<>>
    /\ latest_message(updated[h], "assistant") # <<>>

\* a plausible slip: the request's messages are saved, not the updated ones
SaveRequestMessages(h) ==
    /\ pc[h] = "save"
    /\ save_calls' = [save_calls EXCEPT ![h] = @ + 1]
    /\ conversations' = save_conversation(conversations, user_id[h], request[h].messages)
    /\ last_write' = [last_write EXCEPT ![user_id[h]] = h]
    /\ pc' = [pc EXCEPT ![h] = IF LogsQuery(h) THEN "log" ELSE "respond"]
    /\ UNCHANGED <<query_logs, uuids, request, user_id, cookie_set, sent, updated, response,
                   history, failed_at, completion_calls, conversations0, storeVars>>

\* line 118: save_conversation returns
Save(h) ==
    /\ pc[h] = "save"
    /\ save_calls' = [save_calls EXCEPT ![h] = @ + 1]
    /\ conversations' = save_conversation(conversations, user_id[h], updated[h])
    /\ last_write' = [last_write EXCEPT ![user_id[h]] = h]
    /\ pc' = [pc EXCEPT ![h] = IF LogsQuery(h) THEN "log" ELSE "respond"]
    /\ UNCHANGED <<query_logs, uuids, request, user_id, cookie_set, sent, updated, response,
                   history, failed_at, completion_calls, conversations0, storeVars>>

\* line 118: save_conversation raises, the write is not applied
SaveRaises(h) ==
    /\ pc[h] = "save"
    /\ save_calls' = [save_calls EXCEPT ![h] = @ + 1]
    /\ RaiseHTTP500(h, "save")
    /\ UNCHANGED <<conversations, query_logs, uuids, request, user_id, cookie_set, sent,
                   updated, history, completion_calls, last_write, conversations0, storeVars>>

\* lines 121-132: log_user_query returns
LogQuery(h) ==
    /\ pc[h] = "log"
    /\ query_logs' = log_user_query(query_logs, user_id[h],
                                    latest_message(request[h].messages, "user")[1].content,
                                    latest_message(updated[h], "assistant")[1].content,
                                    Len(updated[h]))
    /\ pc' = [pc EXCEPT ![h] = "respond"]
    /\ UNCHANGED <<conversations, uuids, request, user_id, cookie_set, sent, updated,
                   response, history, failed_at, completion_calls, save_calls, last_write,
                   conversations0, storeVars>>

\* lines 121-132: log_user_query raises
LogRaises(h) ==
    /\ pc[h] = "log"
    /\ RaiseHTTP500(h, "log")
    /\ UNCHANGED <<conversations, query_logs, uuids, request, user_id, cookie_set, sent,
                   updated, history, completion_calls, save_calls, last_write,
                   conversations0, storeVars>>

\* lines 141-143: the response carries the updated messages
Respond(h) ==
    /\ pc[h] = "respond"
    /\ response' = [response EXCEPT ![h] = [status |-> 200,
                                            messages |-> dump_all(updated[h])]]
    /\ pc' = [pc EXCEPT ![h] = "done"]
    /\ UNCHANGED <<conversations, query_logs, uuids, request, user_id, cookie_set, sent,
                   updated, history, failed_at, completion_calls, save_calls, last_write,
                   conversations0, storeVars>>

\* get_history, called by the client for the id of its answered chat request
GetHistory(h) ==
    /\ pc[h] = "done"
    /\ history' = [history EXCEPT ![h] = dump_all(get_conversation(conversations, user_id[h]))]
    /\ pc' = [pc EXCEPT ![h] = "looked"]
    /\ UNCHANGED <<conversations, query_logs, uuids, request, user_id, cookie_set, sent,
                   updated, response, failed_at, completion_calls, save_calls, last_write,
                   conversations0, storeVars>>

Turn(h, Replies) ==
    \/ AgentRaises(h)
    \/ \E raw \in Replies : AgentReturns(h, raw)
    \/ Save(h)
    \/ SaveRaises(h)
    \/ LogQuery(h)
    \/ LogRaises(h)
    \/ Respond(h)
    \/ GetHistory(h)

(***************************************************************************)
(* One request, every identity input and every history up to MaxLen.       *)
(***************************************************************************)
Next ==
    \/ \E p \in Ids, c \in Ids, m \in Histories : Receive("h1", p, c, m)
    \/ Turn("h1", RawReplies)

Spec == Init /\ [][Next]_vars

(***************************************************************************)
(* Two requests handled concurrently (two server processes on one          *)
(* database), interleaved at every call that leaves the process.           *)
(***************************************************************************)
NextConc ==
    \E h \in Handlers :
        \/ \E p \in {None, "A"}, c \in {None, "B"}, m \in ChatHistories : Receive(h, p, c, m)
        \/ Turn(h, ChatRawReplies)

SpecConc == InitEmpty /\ [][NextConc]_vars

(***************************************************************************)
(* The store alone: any sequence of save_conversation and                  *)
(* get_conversation calls.                                                 *)
(***************************************************************************)
StoreSave(u, messages) ==
    /\ conversations' = save_conversation(conversations, u, messages)
    /\ last_put' = [last_put EXCEPT ![u] = <<messages>>]
    /\ UNCHANGED <<query_logs, uuids, handlerVars, last_write, conversations0, got>>

StoreGet(u) ==
    /\ got' = [user_id |-> u, messages |-> get_conversation(conversations, u)]
    /\ UNCHANGED <<conversations, query_logs, uuids, handlerVars, last_write,
                   conversations0, last_put>>

NextStore ==
    \/ \E u \in {"A", "B"}, m \in ChatHistories : StoreSave(u, m)
    \/ \E u \in {"A", "B", "G1"} : StoreGet(u)

SpecStore == InitEmpty /\ [][NextStore]_vars

(***************************************************************************)
(* Properties.                                                             *)
(***************************************************************************)
IsPresent(id) == id \notin {None, ""}

\* C1: the sequence passed to the completion call is the system prompt message
\* followed by the input when the input is empty or does not start with a system
\* message, and is the input itself when it starts with a system message,
\* whatever that message's content.
C1_Normalization ==
    \A h \in Handlers :
        completion_calls[h] > 0 =>
            LET m == request[h].messages
            IN /\ (m = <<>> \/ m[1].role # "system") =>
                      sent[h] = <<[role |-> "system", content |-> SYSTEM_PROMPT]>> \o m
               /\ (m # <<>> /\ m[1].role = "system") => sent[h] = m

\* C1 witness: a history led by a system message that is not the prompt was sent as is
C1_Witness ==
    /\ completion_calls["h1"] = 1
    /\ Len(request["h1"].messages) = 2
    /\ request["h1"].messages[1] = [role |-> "system", content |-> UserText]
    /\ sent["h1"] = request["h1"].messages

\* C2: a present payload id wins and is issued as cookie, even beside a different
\* cookie id; else a present cookie id is used and nothing is issued; else a
\* generated id is used and issued.
C2_IdentityPriority ==
    \A h \in Handlers :
        pc[h] # "idle" =>
            LET p == request[h].user_id
                c == request[h].cookie
            IN /\ IsPresent(p) => user_id[h] = p /\ cookie_set[h] = p
               /\ (~IsPresent(p) /\ IsPresent(c)) => user_id[h] = c /\ cookie_set[h] = None
               /\ (~IsPresent(p) /\ ~IsPresent(c)) =>
                      /\ user_id[h] \in uuids
                      /\ user_id[h] \notin (Ids \ {"A", "B"})
                      /\ cookie_set[h] = user_id[h]

\* C2 witness: payload id A beside cookie id B resolved to A
C2_Witness ==
    /\ pc["h1"] = "agent"
    /\ request["h1"].user_id = "A"
    /\ request["h1"].cookie = "B"
    /\ user_id["h1"] = "A"
    /\ cookie_set["h1"] = "A"

\* C3: when the completion call fails the request ends in HTTP 500, the completion
\* was called once, save_conversation was not called and the store holds the
\* records it held before; no request calls the completion twice.
C3_CompletionFailureNoWrite ==
    \A h \in Handlers :
        /\ completion_calls[h] <= 1
        /\ failed_at[h] = "completion" =>
              /\ pc[h] = "error"
              /\ response[h].status = 500
              /\ completion_calls[h] = 1
              /\ save_calls[h] = 0
              /\ conversations = conversations0

\* C3 witness: the completion failed for user A, whose earlier record is in the store
C3_Witness ==
    /\ failed_at["h1"] = "completion"
    /\ user_id["h1"] = "A"
    /\ conversations = <<PriorRecord>>

\* C4: when the completion succeeded and save_conversation failed, the request
\* still returns the updated history to the client.
C4_SaveFailureStillAnswers ==
    \A h \in Handlers :
        failed_at[h] = "save" =>
            /\ response[h].status = 200
            /\ response[h].messages = updated[h]

SingleLeadingSystem(msgs) ==
    msgs # <<>> =>
        /\ msgs[1].role = "system"
        /\ \A i \in 2..Len(msgs) : msgs[i].role # "system"

\* C5 as stated: for every input, the normalized history and the result have a
\* system message at element 0 and at no other position.
C5_SingleLeadingSystem ==
    \A h \in Handlers :
        /\ completion_calls[h] > 0 => SingleLeadingSystem(sent[h])
        /\ updated[h] # <<>> => SingleLeadingSystem(updated[h])

\* the positions after the first hold a system message exactly where the input did
SystemOnlyFromInput(msgs, input, n) ==
    /\ msgs # <<>>
    /\ msgs[1].role = "system"
    /\ \A i \in 2..n :
          (msgs[i].role = "system") = (input[i - (n - Len(input))].role = "system")

\* C5 amended: the normalized history and the result start with a system message,
\* and any other position holds a system message exactly when it is a system
\* message of the input (kept, never removed); the appended reply is none.
C5_LeadingSystemInputKept ==
    \A h \in Handlers :
        /\ completion_calls[h] > 0 =>
              SystemOnlyFromInput(sent[h], request[h].messages, Len(sent[h]))
        /\ updated[h] # <<>> =>
              /\ SystemOnlyFromInput(updated[h], request[h].messages, Len(sent[h]))
              /\ updated[h][Len(updated[h])].role # "system"

\* C5 witness: the input's second message is a system message, and the result keeps it
C5_Witness ==
    /\ updated["h1"] # <<>>
    /\ Len(request["h1"].messages) = 2
    /\ request["h1"].messages[1].role = "user"
    /\ request["h1"].messages[2].role = "system"
    /\ updated["h1"][1] = SystemPromptMessage
    /\ updated["h1"][3].role = "system"

\* C6: the result of get_agent_response is the normalized history followed by one
\* message of role assistant, and the input list is as it was received.
C6_AppendOnly ==
    \A h \in Handlers :
        updated[h] # <<>> =>
            LET n == Len(sent[h])
                m == request[h].messages
            IN /\ Len(updated[h]) = n + 1
               /\ SubSeq(updated[h], 1, n) = sent[h]
               /\ updated[h][n + 1].role = "assistant"
               /\ Len(m) <= n
               /\ SubSeq(sent[h], n - Len(m) + 1, n) = m

\* C6 witness: a two-message input without system message grew to four messages
C6_Witness ==
    /\ Len(request["h1"].messages) = 2
    /\ request["h1"].messages[1].role = "user"
    /\ Len(updated["h1"]) = 4
    /\ updated["h1"][4] = [role |-> "assistant", content |-> <<"o", "k">>]

\* C7: get_conversation(u) is the history of the last save_conversation(u, .),
\* or empty when u was never saved; no user id has two records (so a save for
\* one id leaves the others' records as they were).
C7_FullReplacement ==
    \A u \in Users :
        /\ Cardinality(Matching(conversations, u)) <= 1
        /\ get_conversation(conversations, u) =
              (IF last_put[u] = <<>> THEN <<>> ELSE last_put[u][1])
        /\ (last_put[u] = <<>>) = (Matching(conversations, u) = {})

\* C7 witness: A and B were saved, G1 never, and the lookup of G1 returned empty
C7_Witness ==
    /\ last_put["A"] = <<<<[role |-> "user", content |-> UserText]>>>>
    /\ last_put["B"] = <<<<>>>>
    /\ last_put["G1"] = <<>>
    /\ got = [user_id |-> "G1", messages |-> <<>>]
    /\ Len(conversations) = 2

\* C8: after a successful chat request the one record of the resolved user id
\* is the history of the response, and the following history lookup returns it.
C8_StoredIsReturned ==
    \A h \in Handlers :
        pc[h] \in {"done", "looked"} =>
            /\ response[h].status = 200
            /\ Cardinality(Matching(conversations, user_id[h])) = 1
            /\ get_conversation(conversations, user_id[h]) = response[h].messages
            /\ pc[h] = "looked" => history[h] = response[h].messages

\* C8 witness: the record of A from an earlier run was overwritten and looked up
C8_Witness ==
    /\ pc["h1"] = "looked"
    /\ user_id["h1"] = "A"
    /\ conversations0 = <<PriorRecord>>
    /\ history["h1"] # PriorRecord.messages
    /\ Len(history["h1"]) = 2

C10_ErrorLeavesStore ==
    \A h \in Handlers :
        response[h].status = 500 => conversations = conversations0

====
